---- MODULE Spec2Model ----
(***************************************************************************)
(* Model of the Parameters panel component                                 *)
(* (laser_frontend/src/components/Parameters.vue).                         *)
(*                                                                         *)
(* The component owns the reactive record returned by data(), receives the *)
(* preset catalog through the "presets" prop, rebuilds the <select>        *)
(* options, and talks to its owner through two events: "update" (a         *)
(* parameter snapshot) and "download" (the export request).                *)
(*                                                                         *)
(* Numbers are integers in thousandths of the unit shown in the panel      *)
(* (thickness 3.0 mm is 3000, kerf 0.05 mm is 50, scale 1.0 is 1000).      *)
(***************************************************************************)
EXTENDS Integers, Sequences, FiniteSets, TLC

\* ------------------------------------------------------------------------
\* Bounds of the model
\* ------------------------------------------------------------------------

\* longest catalog handed to the panel
MaxCatalog == 2

\* "update" events emitted before the environment stops sending stimuli
MaxUpdates == 4

\* field edits committed before the operator leaves the inputs alone
MaxEdits == 2

\* "download" events emitted before the export button is left alone
MaxDownloads == 1

\* ------------------------------------------------------------------------
\* Field names
\* ------------------------------------------------------------------------

\* the fields applyPreset copies from a catalog entry, in the order it copies
PresetFields ==
  << "notes", "thickness", "width", "height", "kerf",
     "boxC", "boxL", "boxI", "tabC", "tabL", "tabI",
     "slotC", "slotL", "slotI", "style" >>

\* the fields bound to an input of the template by v-model / @change=applyParams
EditableFields ==
  { "scale", "notes", "thickness", "width", "height", "kerf",
    "boxC", "boxL", "boxI", "tabC", "tabL", "tabI",
    "slotC", "slotL", "slotI", "style" }

\* the keys of the payload of the "update" event
SnapshotFields ==
  { "preset", "notes", "scale", "thickness", "width", "height", "kerf",
    "boxC", "boxL", "boxI", "tabC", "tabL", "tabI",
    "slotC", "slotL", "slotI", "style" }

\* the fields whose inputs are text (textarea / input without type=number)
TextFields == { "notes", "style" }

\* ------------------------------------------------------------------------
\* Inputs: catalog entries and edited values
\* ------------------------------------------------------------------------

ply3mm ==
  [ preset |-> "ply3mm", notes |-> "3mm plywood",
    thickness |-> 3000, width |-> 450000, height |-> 300000, kerf |-> 100,
    boxC |-> 11, boxL |-> 12, boxI |-> 13,
    tabC |-> 21, tabL |-> 22, tabI |-> 23,
    slotC |-> 31, slotL |-> 32, slotI |-> 33,
    style |-> "stroke:#000000;" ]

acrylic ==
  [ preset |-> "acrylic", notes |-> "6mm acrylic",
    thickness |-> 6000, width |-> 600000, height |-> 400000, kerf |-> 200,
    boxC |-> 41, boxL |-> 42, boxI |-> 43,
    tabC |-> 51, tabL |-> 52, tabI |-> 53,
    slotC |-> 61, slotL |-> 62, slotI |-> 63,
    style |-> "stroke:#ff0000;" ]

\* a catalog entry whose name is the word the panel uses for "no preset"
customNamed ==
  [ preset |-> "custom", notes |-> "a preset called custom",
    thickness |-> 4000, width |-> 500000, height |-> 350000, kerf |-> 150,
    boxC |-> 71, boxL |-> 72, boxI |-> 73,
    tabC |-> 81, tabL |-> 82, tabI |-> 83,
    slotC |-> 91, slotL |-> 92, slotI |-> 93,
    style |-> "stroke:#00ff00;" ]

PresetPool == { ply3mm, acrylic, customNamed }

\* names of a catalog, in catalog order
names(cat) == [ i \in 1..Len(cat) |-> cat[i].preset ]

\* catalogs: ordered, names unique within the catalog (the owner's contract)
Catalogs ==
  { cat \in UNION { [1..n -> PresetPool] : n \in 0..MaxCatalog } :
      \A i, j \in 1..Len(cat) : cat[i].preset = cat[j].preset => i = j }

\* values typed into a field: text for the text inputs, numbers for the
\* number inputs (negative ones included, the inputs have no min; 3000 is
\* also the thickness of ply3mm)
EditValues(f) ==
  IF f \in TextFields THEN { "edited" }
  ELSE IF f = "thickness" THEN { 3000, 5000, -1000 }
  ELSE IF f = "kerf" THEN { 5000, -1000 }
  ELSE { 5000 }

\* ------------------------------------------------------------------------
\* State
\* ------------------------------------------------------------------------

VARIABLES
  data,       \* the reactive record of data(): scale, preset, notes, ...
  presets,    \* the "presets" prop: the current catalog
  options,    \* values of the selectable <option>s of the preset <select>
  updates,    \* payloads of the "update" events emitted so far, in order
  downloads,  \* number of "download" events emitted so far
  pc,         \* "mounted": the $nextTick callback of mounted is queued;
              \* "watch": the presets watcher is queued; "idle" otherwise
  edits,      \* number of field edits committed so far
  last,       \* the stimulus handled last, and the state it started from
  run         \* the current run of consecutive field edits

vars == << data, presets, options, updates, downloads, edits, pc, last, run >>

\* ------------------------------------------------------------------------
\* The component's methods, as functions of the reactive record
\* ------------------------------------------------------------------------

\* data(): the record the panel is created with
dataDefaults ==
  [ scale |-> 1000, preset |-> "custom", notes |-> "No notes",
    thickness |-> 3000, width |-> 450000, height |-> 300000, kerf |-> 50,
    boxC |-> 0, boxL |-> 0, boxI |-> 0,
    tabC |-> 0, tabL |-> 0, tabI |-> 0,
    slotC |-> 0, slotL |-> 0, slotI |-> 0,
    style |-> "stroke:#ff00ff;stroke-width:5px;" ]

\* the <option>s of the template before the first rebuild: the disabled
\* placeholder is not selectable, "custom" carries the empty value
templateOptions == << "" >>

\* applyParams with a copy-paste slip: the height key reads the width field
applyParamsHeightFromWidth(d) ==
  [ preset |-> d.preset, notes |-> d.notes,
    scale |-> d.scale,
    thickness |-> d.thickness, width |-> d.width, height |-> d.width,
    kerf |-> d.kerf,
    boxC |-> d.boxC, boxL |-> d.boxL, boxI |-> d.boxI,
    tabC |-> d.tabC, tabL |-> d.tabL, tabI |-> d.tabI,
    slotC |-> d.slotC, slotL |-> d.slotL, slotI |-> d.slotI,
    style |-> d.style ]

\* applyParams: the payload of the "update" event built from the record d
applyParams(d) ==
  [ preset |-> d.preset, notes |-> d.notes,
    scale |-> d.scale,
    thickness |-> d.thickness, width |-> d.width, height |-> d.height,
    kerf |-> d.kerf,
    boxC |-> d.boxC, boxL |-> d.boxL, boxI |-> d.boxI,
    tabC |-> d.tabC, tabL |-> d.tabL, tabI |-> d.tabI,
    slotC |-> d.slotC, slotL |-> d.slotL, slotI |-> d.slotI,
    style |-> d.style ]

\* index of the first catalog entry whose name is n, 0 when there is none
\* (the for-of loop of applyPreset with its break)
firstMatch(cat, n) ==
  IF \E i \in 1..Len(cat) : cat[i].preset = n
    THEN CHOOSE i \in 1..Len(cat) :
           /\ cat[i].preset = n
           /\ \A j \in 1..(i - 1) : cat[j].preset # n
    ELSE 0

\* the first k assignments of the body of the loop of applyPreset
RECURSIVE copyFields(_, _, _)
copyFields(d, p, k) ==
  IF k = 0 THEN d
  ELSE [ copyFields(d, p, k - 1) EXCEPT ![PresetFields[k]] = p[PresetFields[k]] ]

\* applyPreset without its last assignment (style is not copied)
applyPresetOmitStyle(d, cat) ==
  LET i == firstMatch(cat, d.preset) IN
    IF i = 0 THEN [ data |-> d, emits |-> << >> ]
    ELSE LET d2 == copyFields(d, cat[i], Len(PresetFields) - 1) IN
           [ data |-> d2, emits |-> << applyParams(d2) >> ]

\* applyPreset falling back to the first entry when no entry has the name
applyPresetFallbackFirst(d, cat) ==
  LET m == firstMatch(cat, d.preset)
      i == IF m = 0 /\ Len(cat) > 0 THEN 1 ELSE m
  IN IF i = 0 THEN [ data |-> d, emits |-> << >> ]
     ELSE LET d2 == copyFields(d, cat[i], Len(PresetFields)) IN
            [ data |-> d2, emits |-> << applyParams(d2) >> ]

\* applyPreset putting scale back to 1.0 along with the preset's fields
applyPresetResetScale(d, cat) ==
  LET i == firstMatch(cat, d.preset) IN
    IF i = 0 THEN [ data |-> d, emits |-> << >> ]
    ELSE LET d2 == [ copyFields(d, cat[i], Len(PresetFields))
                       EXCEPT !.scale = 1000 ] IN
           [ data |-> d2, emits |-> << applyParams(d2) >> ]

\* applyPreset treating "custom" as reserved: that name never matches
applyPresetReserveCustom(d, cat) ==
  LET i == IF d.preset = "custom" THEN 0 ELSE firstMatch(cat, d.preset) IN
    IF i = 0 THEN [ data |-> d, emits |-> << >> ]
    ELSE LET d2 == copyFields(d, cat[i], Len(PresetFields)) IN
           [ data |-> d2, emits |-> << applyParams(d2) >> ]

\* applyPreset: copy the first entry named d.preset into the record and emit
\* a snapshot; without such an entry nothing is copied and nothing is emitted
applyPreset(d, cat) ==
  LET i == firstMatch(cat, d.preset) IN
    IF i = 0 THEN [ data |-> d, emits |-> << >> ]
    ELSE LET d2 == copyFields(d, cat[i], Len(PresetFields)) IN
           [ data |-> d2, emits |-> << applyParams(d2) >> ]

\* updatePresetsOptions applying the entry that is selected already instead
\* of selecting the first one
updatePresetsOptionsKeepSelection(d, cat) ==
  LET opts == << "custom" >> \o names(cat)
      r == IF Len(cat) > 0
             THEN applyPreset(d, cat)
             ELSE [ data |-> d, emits |-> << >> ]
  IN [ data |-> r.data,
       emits |-> r.emits \o << applyParams(r.data) >>,
       options |-> opts ]

\* updatePresetsOptions falling back to "custom" when the catalog is empty
updatePresetsOptionsResetOnEmpty(d, cat) ==
  LET opts == << "custom" >> \o names(cat)
      r == IF Len(cat) > 0
             THEN applyPreset([ d EXCEPT !.preset = cat[1].preset ], cat)
             ELSE [ data |-> [ d EXCEPT !.preset = "custom" ], emits |-> << >> ]
  IN [ data |-> r.data,
       emits |-> r.emits \o << applyParams(r.data) >>,
       options |-> opts ]

\* updatePresetsOptions appending to the options the select already has
\* instead of resetting its innerHTML first
updatePresetsOptionsAppend(d, cat) ==
  LET opts == options \o names(cat)
      r == IF Len(cat) > 0
             THEN applyPreset([ d EXCEPT !.preset = cat[1].preset ], cat)
             ELSE [ data |-> d, emits |-> << >> ]
  IN [ data |-> r.data,
       emits |-> r.emits \o << applyParams(r.data) >>,
       options |-> opts ]

\* updatePresetsOptions without its closing applyParams
updatePresetsOptionsNoFinalEmit(d, cat) ==
  LET opts == << "custom" >> \o names(cat)
      r == IF Len(cat) > 0
             THEN applyPreset([ d EXCEPT !.preset = cat[1].preset ], cat)
             ELSE [ data |-> d, emits |-> << >> ]
  IN [ data |-> r.data,
       emits |-> r.emits,
       options |-> opts ]

\* updatePresetsOptions with its closing applyParams only for an empty catalog
updatePresetsOptionsEmitOnce(d, cat) ==
  LET opts == << "custom" >> \o names(cat)
      r == IF Len(cat) > 0
             THEN applyPreset([ d EXCEPT !.preset = cat[1].preset ], cat)
             ELSE [ data |-> d, emits |-> << applyParams(d) >> ]
  IN [ data |-> r.data,
       emits |-> r.emits,
       options |-> opts ]

\* updatePresetsOptions: rebuild the options, select and apply the first
\* entry of a non-empty catalog, then emit a snapshot
updatePresetsOptions(d, cat) ==
  LET opts == << "custom" >> \o names(cat)
      r == IF Len(cat) > 0
             THEN applyPreset([ d EXCEPT !.preset = cat[1].preset ], cat)
             ELSE [ data |-> d, emits |-> << >> ]
  IN [ data |-> r.data,
       emits |-> r.emits \o << applyParams(r.data) >>,
       options |-> opts ]

\* the v-model binding with a floor: a negative number is stored as 0
vModelClamped(d, f, v) ==
  IF f \in TextFields \cup { "preset" } THEN [ d EXCEPT ![f] = v ]
  ELSE [ d EXCEPT ![f] = IF v < 0 THEN 0 ELSE v ]

\* the v-model binding of one input: the field takes the value typed
vModel(d, f, v) == [ d EXCEPT ![f] = v ]

\* downloadsvg emitting "download" twice
downloadsvgTwice(n) == n + 2

\* downloadsvg: the number of "download" events after one more click
downloadsvg(n) == n + 1

\* ------------------------------------------------------------------------
\* Initial state and stimuli
\* ------------------------------------------------------------------------

noRun(d, u) == [ base |-> d, n |-> Len(u), edits |-> << >> ]

handled(op, arg) ==
  [ op |-> op, arg |-> arg, data |-> data, options |-> options, pc |-> pc,
    nUpdates |-> Len(updates), nDownloads |-> downloads ]

Init ==
  /\ data = dataDefaults
  /\ presets \in Catalogs
  /\ options = templateOptions
  /\ updates = << >>
  /\ downloads = 0
  /\ edits = 0
  /\ pc = "mounted"
  /\ last = [ op |-> "created", arg |-> << >>, data |-> dataDefaults,
              options |-> templateOptions, pc |-> "mounted",
              nUpdates |-> 0, nDownloads |-> 0 ]
  /\ run = noRun(dataDefaults, << >>)

\* mounted: the callback handed to $nextTick runs updatePresetsOptions
NextTick ==
  /\ pc = "mounted"
  /\ LET r == updatePresetsOptions(data, presets) IN
       /\ data' = r.data
       /\ options' = r.options
       /\ updates' = updates \o r.emits
       /\ run' = noRun(r.data, updates \o r.emits)
  /\ pc' = "idle"
  /\ last' = handled("mount", << >>)
  /\ UNCHANGED << presets, downloads, edits >>

\* ReplaceCatalog without the watcher: the prop changes and nothing is queued
ReplaceCatalogUnwatched(cat) ==
  /\ pc = "idle"
  /\ Len(updates) + 2 <= MaxUpdates
  /\ presets' = cat
  /\ pc' = "idle"
  /\ last' = handled("presets", << >>)
  /\ run' = noRun(data, updates)
  /\ UNCHANGED << data, options, updates, downloads, edits >>

\* the owner replaces the catalog: the prop changes and the watcher is queued
ReplaceCatalog(cat) ==
  /\ pc = "idle"
  /\ Len(updates) + 2 <= MaxUpdates
  /\ presets' = cat
  /\ pc' = "watch"
  /\ last' = handled("presets", << >>)
  /\ run' = noRun(data, updates)
  /\ UNCHANGED << data, options, updates, downloads, edits >>

\* watch.presets: the queued watcher runs updatePresetsOptions
WatchPresets ==
  /\ pc = "watch"
  /\ LET r == updatePresetsOptions(data, presets) IN
       /\ data' = r.data
       /\ options' = r.options
       /\ updates' = updates \o r.emits
       /\ run' = noRun(r.data, updates \o r.emits)
  /\ pc' = "idle"
  /\ last' = handled("onCatalogReplaced", << >>)
  /\ UNCHANGED << presets, downloads, edits >>

\* the operator picks an option of the <select>: v-model stores its value in
\* data.preset, then @change runs applyPreset
SelectPreset(n) ==
  /\ pc = "idle"
  /\ \E k \in 1..Len(options) : options[k] = n
  /\ LET r == applyPreset(vModel(data, "preset", n), presets) IN
       /\ Len(updates) + Len(r.emits) <= MaxUpdates
       /\ data' = r.data
       /\ updates' = updates \o r.emits
       /\ run' = noRun(r.data, updates \o r.emits)
  /\ last' = handled("selectPreset", << n >>)
  /\ UNCHANGED << presets, options, downloads, edits, pc >>

\* EditField with the emission coalesced: within a run of edits the snapshot
\* replaces the one of the edit before instead of following it
EditFieldCoalesced(f, v) ==
  /\ pc = "idle"
  /\ Len(updates) < MaxUpdates
  /\ edits < MaxEdits
  /\ edits' = edits + 1
  /\ LET d2 == vModel(data, f, v) IN
       /\ data' = d2
       /\ updates' = IF Len(run.edits) > 0
                       THEN [ updates EXCEPT ![Len(updates)] = applyParams(d2) ]
                       ELSE Append(updates, applyParams(d2))
  /\ run' = [ run EXCEPT !.edits = Append(@, << f, v >>) ]
  /\ last' = handled("editField", << f, v >>)
  /\ UNCHANGED << presets, options, downloads, pc >>

\* EditField handing the live record itself to the owner: every snapshot
\* delivered so far is that one object and shows the new state
EditFieldAliased(f, v) ==
  /\ pc = "idle"
  /\ Len(updates) < MaxUpdates
  /\ edits < MaxEdits
  /\ edits' = edits + 1
  /\ LET d2 == vModel(data, f, v) IN
       /\ data' = d2
       /\ updates' = [ k \in 1..(Len(updates) + 1) |-> applyParams(d2) ]
  /\ run' = [ run EXCEPT !.edits = Append(@, << f, v >>) ]
  /\ last' = handled("editField", << f, v >>)
  /\ UNCHANGED << presets, options, downloads, pc >>

\* the operator commits a value in one input: v-model stores it in the
\* field, then @change runs applyParams
EditField(f, v) ==
  /\ pc = "idle"
  /\ Len(updates) < MaxUpdates
  /\ edits < MaxEdits
  /\ edits' = edits + 1
  /\ LET d2 == vModel(data, f, v) IN
       /\ data' = d2
       /\ updates' = Append(updates, applyParams(d2))
  /\ run' = [ run EXCEPT !.edits = Append(@, << f, v >>) ]
  /\ last' = handled("editField", << f, v >>)
  /\ UNCHANGED << presets, options, downloads, pc >>

\* the operator clicks "Export Cut Plan": @click runs downloadsvg
RequestExport ==
  /\ pc = "idle"
  /\ downloads < MaxDownloads
  /\ downloads' = downloadsvg(downloads)
  /\ last' = handled("requestExport", << >>)
  /\ run' = noRun(data, updates)
  /\ UNCHANGED << data, presets, options, updates, edits, pc >>

Next ==
  \/ NextTick
  \/ \E cat \in Catalogs : ReplaceCatalog(cat)
  \/ WatchPresets
  \/ \E n \in { "custom" } \cup { p.preset : p \in PresetPool } : SelectPreset(n)
  \/ \E f \in EditableFields : \E v \in EditValues(f) : EditField(f, v)
  \/ RequestExport

Spec == Init /\ [][Next]_vars

\* the stimuli run to completion in turn; a queued callback always runs
FairSpec == Spec /\ WF_vars(NextTick) /\ WF_vars(WatchPresets)

\* the panel from its creation on, with an owner that keeps the initial
\* catalog and an operator who selects presets and exports; the queued mount
\* callback always gets to run
NextFromStart ==
  \/ NextTick
  \/ \E n \in { "custom" } \cup { p.preset : p \in PresetPool } : SelectPreset(n)
  \/ RequestExport

StartSpec == Init /\ [][NextFromStart]_vars /\ WF_vars(NextTick)

\* names given to selectPreset that no entry of any catalog carries
StrayNames == { "nonexistent" }

\* data.preset is set to a name the <select> does not offer and applyPreset
\* is run (a call from outside the template: the select itself only yields
\* the values of its options)
SelectUnlisted(n) ==
  /\ pc = "idle"
  /\ \A k \in 1..Len(options) : options[k] # n
  /\ LET r == applyPreset(vModel(data, "preset", n), presets) IN
       /\ Len(updates) + Len(r.emits) <= MaxUpdates
       /\ data' = r.data
       /\ updates' = updates \o r.emits
       /\ run' = noRun(r.data, updates \o r.emits)
  /\ last' = handled("selectPreset", << n >>)
  /\ UNCHANGED << presets, options, downloads, edits, pc >>

NextAnyName ==
  \/ NextTick
  \/ \E cat \in Catalogs : ReplaceCatalog(cat)
  \/ WatchPresets
  \/ \E n \in { "custom" } \cup { p.preset : p \in PresetPool } : SelectPreset(n)
  \/ \E f \in EditableFields : \E v \in EditValues(f) : EditField(f, v)
  \/ \E n \in StrayNames : SelectUnlisted(n)

\* the panel when selectPreset is also called with names outside its list
\* (the export button, which touches none of this, is left alone)
AnyNameSpec == Init /\ [][NextAnyName]_vars

\* ------------------------------------------------------------------------
\* Shape of the state
\* ------------------------------------------------------------------------

TypeOK ==
  /\ DOMAIN data = SnapshotFields
  /\ presets \in Catalogs
  /\ pc \in { "mounted", "watch", "idle" }
  /\ downloads \in 0..MaxDownloads
  /\ edits \in 0..MaxEdits
  /\ Len(updates) <= MaxUpdates
  /\ \A k \in 1..Len(updates) : DOMAIN updates[k] = SnapshotFields

\* ------------------------------------------------------------------------
\* Vocabulary of the properties
\* ------------------------------------------------------------------------

\* the fields of the live parameter set that a preset determines
PresetDerived ==
  { "notes", "thickness", "width", "height", "kerf",
    "boxC", "boxL", "boxI", "tabC", "tabL", "tabI",
    "slotC", "slotL", "slotI", "style" }

\* records a and b agree on every field of F
agree(a, b, F) == \A f \in F : a[f] = b[f]

\* the catalog has an entry named n
inCatalog(cat, n) == \E i \in 1..Len(cat) : cat[i].preset = n

\* snapshot s is complete and carries exactly the values of the record d
snapshotOf(s, d) == DOMAIN s = SnapshotFields /\ agree(s, d, SnapshotFields)

\* the snapshots emitted by the handler that ran last
emitted == SubSeq(updates, last.nUpdates + 1, Len(updates))

\* ------------------------------------------------------------------------
\* Properties
\* ------------------------------------------------------------------------

\* C1 (bound fidelity): right after selectPreset(P.name), for P any entry of
\* the current catalog, every preset-derived field of the live record equals
\* P's field and the selected name is P.name.
C1_BoundFidelity ==
  last.op = "selectPreset" =>
    \A i \in 1..Len(presets) :
      presets[i].preset = last.arg[1] =>
        /\ data.preset = presets[i].preset
        /\ agree(data, presets[i], PresetDerived)

\* a preset was selected over a record that was bound to another entry and
\* differed from the selected one
C1_Witness ==
  /\ last.op = "selectPreset"
  /\ \E i \in 1..Len(presets) :
       /\ presets[i].preset = last.arg[1]
       /\ last.data.preset # presets[i].preset
       /\ \A f \in PresetDerived : last.data[f] # presets[i][f]
       /\ data.preset = presets[i].preset

\* C2 as stated (custom detachment): after selectPreset("custom") the selected
\* name is "custom" and every field, scale included, has the value it had.
C2_CustomDetachment_Stated ==
  (last.op = "selectPreset" /\ last.arg[1] = "custom") =>
    /\ data.preset = "custom"
    /\ agree(data, last.data, SnapshotFields \ { "preset" })

\* C2 as amended: after selectPreset("custom") the selected name is "custom";
\* when no entry of the current catalog is itself named "custom", every
\* field, scale included, has the value it had before the call.
C2_CustomDetachment ==
  (last.op = "selectPreset" /\ last.arg[1] = "custom") =>
    /\ data.preset = "custom"
    /\ ~ inCatalog(presets, "custom") =>
         agree(data, last.data, SnapshotFields \ { "preset" })

\* "custom" was selected while the record was bound to a catalog entry and
\* carried an edited field; the catalog has no entry named "custom"
C2_Witness ==
  /\ last.op = "selectPreset" /\ last.arg[1] = "custom"
  /\ ~ inCatalog(presets, "custom")
  /\ inCatalog(presets, last.data.preset)
  /\ \E i \in 1..Len(presets) :
       /\ presets[i].preset = last.data.preset
       /\ ~ agree(last.data, presets[i], PresetDerived)
  /\ data.preset = "custom"

\* C3 (default selection on load): after a catalog replacement with a
\* non-empty catalog the preset-derived fields equal those of its first entry
\* and the selected name is that entry's name, whatever the state before.
C3_DefaultSelectionOnLoad ==
  (last.op = "onCatalogReplaced" /\ Len(presets) > 0) =>
    /\ data.preset = presets[1].preset
    /\ agree(data, presets[1], PresetDerived)

\* a non-empty catalog replaced the catalog while the record carried another
\* selection and values that differ from the new first entry (a manual edit
\* among them)
C3_Witness ==
  /\ last.op = "onCatalogReplaced" /\ Len(presets) > 0
  /\ last.data.preset # presets[1].preset
  /\ \A f \in PresetDerived : last.data[f] # presets[1][f]
  /\ edits > 0
  /\ data.preset = presets[1].preset

\* C4 (empty catalog no-op): a catalog replacement with the empty catalog
\* leaves every field of the live record and the selected name as they were.
C4_EmptyCatalogNoOp ==
  (last.op = "onCatalogReplaced" /\ Len(presets) = 0) =>
    agree(data, last.data, SnapshotFields)

\* the empty catalog replaced a catalog while the record was bound to one of
\* its entries
C4_Witness ==
  /\ last.op = "onCatalogReplaced" /\ Len(presets) = 0
  /\ last.data.preset # "custom"
  /\ data.preset = last.data.preset

\* C5 (snapshot completeness): every snapshot a handler emits has all
\* seventeen keys, and each value is the one of the live record at emission;
\* in particular none is emitted from a half-copied preset.
C5_SnapshotCompleteness ==
  \A k \in 1..Len(emitted) : snapshotOf(emitted[k], data)

\* a catalog replacement emitted from inside applyPreset and again at its end
\* after overwriting every preset-derived field
C5_Witness ==
  /\ last.op = "onCatalogReplaced"
  /\ Len(emitted) = 2
  /\ \A f \in PresetDerived : last.data[f] # data[f]
  /\ snapshotOf(emitted[1], data)

\* C6 (export is state-neutral): an export request changes no field of the
\* live record, raises the number of "download" events by exactly one, and no
\* other stimulus raises it.
C6_ExportStateNeutral ==
  /\ last.op = "requestExport" =>
       /\ agree(data, last.data, SnapshotFields)
       /\ downloads = last.nDownloads + 1
  /\ last.op # "requestExport" => downloads = last.nDownloads

\* an export was requested on a record that had left its defaults
C6_Witness ==
  /\ last.op = "requestExport"
  /\ downloads = last.nDownloads + 1
  /\ data # dataDefaults
  /\ data = last.data

\* C7 as stated: every selectPreset(name) with name "custom" or the name of a
\* catalog entry ends by emitting one snapshot of the resulting state.
C7_SelectEmits_Stated ==
  (/\ last.op = "selectPreset"
   /\ (last.arg[1] = "custom" \/ inCatalog(presets, last.arg[1]))) =>
    /\ Len(emitted) >= 1
    /\ snapshotOf(emitted[Len(emitted)], data)

\* the record d after the first k edits of the sequence es
RECURSIVE afterEdits(_, _, _)
afterEdits(d, es, k) ==
  IF k = 0 THEN d
  ELSE [ afterEdits(d, es, k - 1) EXCEPT ![es[k][1]] = es[k][2] ]

\* C8 (no batching): a run of N consecutive field edits has emitted exactly
\* N snapshots since it began, and the k-th of them carries the state the run
\* began in with the first k edits applied.
C8_NoBatching ==
  /\ Len(updates) = run.n + Len(run.edits)
  /\ \A k \in 1..Len(run.edits) :
       snapshotOf(updates[run.n + k], afterEdits(run.base, run.edits, k))

\* two edits in a row, the second one of a field the first left alone
C8_Witness ==
  /\ last.op = "editField"
  /\ Len(run.edits) = 2
  /\ run.edits[1][1] # run.edits[2][1]
  /\ Len(updates) = run.n + 2
  /\ updates[run.n + 1] # updates[run.n + 2]

\* C9 as stated (detachment on edit): when the record is bound to catalog
\* entry P and a field edit gives a preset-derived field a value other than
\* P's, the snapshot emitted carries the new value and the selected name
\* becomes "custom".
C9_DetachOnEdit_Stated ==
  last.op = "editField" =>
    \A i \in 1..Len(presets) :
      (/\ last.data.preset = presets[i].preset
       /\ agree(last.data, presets[i], PresetDerived)
       /\ last.arg[1] \in PresetDerived
       /\ last.arg[2] # presets[i][last.arg[1]]) =>
        /\ Len(emitted) = 1
        /\ emitted[1][last.arg[1]] = last.arg[2]
        /\ data.preset = "custom"

\* C10 as stated (bound invariant): once a stimulus has been handled, a
\* selected name other than "custom" names an entry of the current catalog
\* and every preset-derived field equals that entry's field.
C10_BoundInvariant_Stated ==
  (pc = "idle" /\ data.preset # "custom") =>
    \E i \in 1..Len(presets) :
      /\ presets[i].preset = data.preset
      /\ agree(data, presets[i], PresetDerived)

C13_SelectableList ==
  last.op = "onCatalogReplaced" =>
    /\ Len(options) = Len(presets) + 1
    /\ options[1] = "custom"
    /\ \A i \in 1..Len(presets) : options[i + 1] = presets[i].preset
    /\ (/\ Len(last.options) = Len(presets) + 1
        /\ last.options[1] = "custom"
        /\ \A i \in 1..Len(presets) : last.options[i + 1] = presets[i].preset)
         => options = last.options

\* a two-entry catalog was replaced by a catalog of the same names in the
\* same order
C13_Witness ==
  /\ last.op = "onCatalogReplaced"
  /\ Len(presets) >= 2
  /\ Len(last.options) = Len(presets) + 1
  /\ \A i \in 1..Len(presets) : last.options[i + 1] = presets[i].preset
  /\ options = last.options
  /\ options[2] # options[3]

\* C14 (scale is independent of presets): only an edit of the scale field
\* changes scale, so neither branch of selectPreset nor a catalog replacement
\* does, and every snapshot emitted carries the current scale.
C14_ScaleIndependent ==
  /\ data.scale # last.data.scale =>
       (last.op = "editField" /\ last.arg[1] = "scale")
  /\ \A k \in 1..Len(emitted) : emitted[k].scale = data.scale

\* a preset was applied, by a selection or a catalog replacement, over a
\* record whose scale had been edited away from 1.0
C14_Witness ==
  /\ last.op \in { "selectPreset", "onCatalogReplaced" }
  /\ Len(emitted) >= 1
  /\ \A f \in PresetDerived : data[f] # last.data[f]
  /\ data.scale # 1000
  /\ data.scale = last.data.scale
  /\ emitted[1].scale = data.scale

\* C15 (field edit): editField(f, v) stores v in field f, whatever v is
\* (a negative thickness or kerf included), and leaves every other field of
\* the live record as it was.
C15_EditOverwritesOneField ==
  last.op = "editField" =>
    /\ data[last.arg[1]] = last.arg[2]
    /\ agree(data, last.data, SnapshotFields \ { last.arg[1] })

\* a negative kerf was typed over a positive one
C15_Witness ==
  /\ last.op = "editField"
  /\ last.arg[1] = "kerf"
  /\ last.arg[2] < 0
  /\ last.data.kerf > 0
  /\ data.kerf = last.arg[2]

\* the option list is the one built from the current catalog
listBuilt ==
  /\ Len(options) = Len(presets) + 1
  /\ options[1] = "custom"
  /\ \A i \in 1..Len(presets) : options[i + 1] = presets[i].preset

builtIn(d) ==
  /\ d.scale = 1000 /\ d.preset = "custom"
  /\ d.thickness = 3000 /\ d.width = 450000 /\ d.height = 300000
  /\ d.kerf = 50
  /\ d.boxC = 0 /\ d.boxL = 0 /\ d.boxI = 0
  /\ d.tabC = 0 /\ d.tabL = 0 /\ d.tabI = 0
  /\ d.slotC = 0 /\ d.slotL = 0 /\ d.slotI = 0

\* the state the mount callback leaves: a snapshot emitted, the first entry
\* of a non-empty initial catalog applied, the built-in values otherwise
afterMount ==
  /\ Len(emitted) >= 1
  /\ snapshotOf(emitted[Len(emitted)], data)
  /\ Len(presets) > 0 =>
       /\ data.preset = presets[1].preset
       /\ agree(data, presets[1], PresetDerived)
  /\ Len(presets) = 0 => builtIn(data)

\* C17 (start-up): until the deferred mount callback runs the panel holds
\* the built-in values and has emitted nothing; the callback eventually runs,
\* and when it has run it has emitted a snapshot and the state is the first
\* entry of the initial catalog, or the built-in values with "custom" when
\* that catalog is empty.
C17_StartUp ==
  /\ [](pc = "mounted" => (builtIn(data) /\ updates = << >>))
  /\ [](last.op = "mount" => afterMount)
  /\ <>(last.op = "mount")

\* the mount callback has run on a non-empty initial catalog
C17_Witness ==
  /\ last.op = "mount"
  /\ last.nUpdates = 0
  /\ builtIn(last.data)
  /\ Len(presets) > 0
  /\ Len(emitted) >= 1
  /\ data.preset = presets[1].preset
  /\ ~ builtIn(data)

\* C18 (snapshots per catalog replacement): a handled replacement by a
\* non-empty catalog emits exactly two snapshots, equal to each other and to
\* the state with the first entry applied; a replacement by the empty
\* catalog emits exactly one, equal to the state it found.
C18_SnapshotsPerReplacement ==
  last.op = "onCatalogReplaced" =>
    /\ Len(presets) > 0 =>
         /\ Len(emitted) = 2
         /\ emitted[1] = emitted[2]
         /\ snapshotOf(emitted[2], data)
         /\ data.preset = presets[1].preset
         /\ agree(data, presets[1], PresetDerived)
    /\ Len(presets) = 0 =>
         /\ Len(emitted) = 1
         /\ snapshotOf(emitted[1], last.data)

\* a non-empty catalog replaced the catalog and changed every preset-derived
\* field; the two snapshots followed the ones emitted before
C18_Witness ==
  /\ last.op = "onCatalogReplaced"
  /\ Len(presets) > 0
  /\ last.nUpdates >= 1
  /\ Len(updates) = last.nUpdates + 2
  /\ updates[Len(updates) - 1] = updates[Len(updates)]
  /\ \A f \in PresetDerived : data[f] # last.data[f]

\* C19 ("custom" is not reserved): when the current catalog has an entry
\* named "custom", selectPreset("custom") gives the preset-derived fields
\* that entry's values and emits one snapshot of the result.
C19_CustomNotReserved ==
  (/\ last.op = "selectPreset"
   /\ last.arg[1] = "custom"
   /\ inCatalog(presets, "custom")) =>
    /\ \A i \in 1..Len(presets) :
         presets[i].preset = "custom" => agree(data, presets[i], PresetDerived)
    /\ Len(emitted) = 1
    /\ snapshotOf(emitted[1], data)

\* "custom" was selected on a panel bound to another entry of a catalog that
\* has an entry named "custom", and every preset-derived field changed
C19_Witness ==
  /\ last.op = "selectPreset"
  /\ last.arg[1] = "custom"
  /\ inCatalog(presets, "custom")
  /\ last.data.preset # "custom"
  /\ \A f \in PresetDerived : data[f] # last.data[f]
  /\ Len(emitted) = 1

\* C20 (snapshots are independent values): in every step the sequence of
\* delivered snapshots keeps its length or grows, and every snapshot already
\* delivered keeps the values it had.
C20_SnapshotsKeepTheirValues ==
  [][ /\ Len(updates') >= Len(updates)
      /\ \A k \in 1..Len(updates) : updates'[k] = updates[k] ]_vars

\* after an edit the snapshot delivered before it still shows the state
\* before the edit, which the live record has left
C20_Witness ==
  /\ last.op = "editField"
  /\ last.nUpdates >= 1
  /\ snapshotOf(updates[last.nUpdates], last.data)
  /\ ~ snapshotOf(updates[last.nUpdates], data)
  /\ snapshotOf(updates[Len(updates)], data)

====
